---- MODULE Spec2Model ----
(***************************************************************************)
(* Model of DurableStreamClient (src/src/main.ts): the session layer of a  *)
(* durable stream client.  One action per event-loop task: every action    *)
(* runs a handler from the point where the event loop enters it to the     *)
(* next await on a timer or on a response.                                 *)
(*                                                                         *)
(* Request ids are rand + n with rand in [0,1) (main.ts:37-38, 131); the   *)
(* model keeps n, the number of increments, which orders and separates the *)
(* ids exactly as rand + n does.                                           *)
(***************************************************************************)
EXTENDS Integers, Sequences, FiniteSets, TLC

\* ---- bounds of the model ----
MaxHandles == 3      \* connection handles the session may allocate
MaxCalls == 2        \* publish-family calls made by the application
MaxSeq == 2          \* sequence numbers the server delivers (1..MaxSeq)
MaxSubscribes == 1   \* subscribe() calls, where a specification follows fewer
MaxDrops == 1        \* handles that close, where a specification follows fewer

\* ---- program constants ----
MaxTries == 20       \* canSend: if (tries > 20) break
ReturnLimit == 20    \* canSend: return tries < 20
FirstReconnects == 0 - 1   \* constructor: this.reconnects = -1

Handles == 1..MaxHandles

VARIABLES
  ws,                \* this.ws: the current handle
  readyState,        \* readyState of every handle ("NONE": not allocated)
  listeners,         \* per handle: how many times setupListeners ran on it
  initPoll,          \* init() loops awaiting the 500 ms timer
  initSettle,        \* init() loops awaiting the 1000 ms settle timer
  started,           \* the application has called init()
  isConnected,
  reconnects,
  lastSequence,
  cMsgId,
  waitingOperations, \* request id -> entry
  listener,          \* TRUE iff this.listener.doHandle is set
  calls,             \* the publish-family calls made so far, in call order
  delivered,         \* sequences whose acknowledgment action the consumer holds
  raised,            \* the errors raised by the last task
  out,               \* the frame the last task handed to an open handle
  acked,             \* history: sequences acknowledged since subscribe()
  ackedAtDrop,       \* history: highest of acked when a handle last closed
  everOpen,          \* history: handles that reached OPEN
  serverFrom         \* the startSequence of the last subscribe request sent

vars == <<ws, readyState, listeners, initPoll, initSettle, started, isConnected,
          reconnects, lastSequence, cMsgId, waitingOperations, listener, calls,
          delivered, raised, out, acked, ackedAtDrop, everOpen, serverFrom>>

\* groups of variables an action leaves alone
socketVars == <<ws, readyState, initPoll, initSettle>>
registryVars == <<cMsgId, waitingOperations, calls>>
cursorVars == <<lastSequence, listener, delivered, acked, ackedAtDrop>>

SetMax(S) == IF S = {} THEN 0 ELSE CHOOSE x \in S : \A y \in S : y <= x

\* the payload of a request: {cmd, startSequence}
Data(cmd, arg) == [cmd |-> cmd, arg |-> arg]

\* no frame
NoFrame == Data("none", 0)

\* constructor
Init ==
  /\ ws = 1
  /\ readyState = [h \in Handles |-> IF h = 1 THEN "CONNECTING" ELSE "NONE"]
  /\ listeners = [h \in Handles |-> 0]
  /\ initPoll = 0
  /\ initSettle = 0
  /\ started = FALSE
  /\ isConnected = FALSE
  /\ reconnects = FirstReconnects
  /\ lastSequence = 0
  /\ cMsgId = 0
  /\ waitingOperations = <<>>
  /\ listener = FALSE
  /\ calls = <<>>
  /\ delivered = {}
  /\ raised = {}
  /\ out = NoFrame
  /\ acked = {}
  /\ ackedAtDrop = 0
  /\ everOpen = {}
  /\ serverFrom = 0

\* ------------------------------------------------------------------------
\* The connection: init() and the close/error handlers
\* ------------------------------------------------------------------------

\* (a loop pass that allocates a handle whenever the current one is not OPEN)
InitStepEager(c) ==
  IF c.rs[c.ws] = "OPEN"
  THEN [c EXCEPT !.settle = @ + 1]
  ELSE IF c.ws < MaxHandles
       THEN [c EXCEPT !.ws = @ + 1, !.rs[c.ws + 1] = "CONNECTING", !.poll = @ + 1]
       ELSE [c EXCEPT !.poll = @ + 1]

\* One pass of init()'s while loop, from its top to its next await, on the
\* connection record c = [ws, rs, poll, settle].
InitStep(c) ==
  IF c.rs[c.ws] = "OPEN"
  THEN [c EXCEPT !.settle = @ + 1]
  ELSE IF c.rs[c.ws] \in {"CLOSED", "CLOSING"}
       THEN [c EXCEPT !.ws = @ + 1, !.rs[c.ws + 1] = "CONNECTING", !.poll = @ + 1]
       ELSE [c EXCEPT !.poll = @ + 1]

\* n calls of init() made one after the other by the same task
RECURSIVE InitCalls(_, _)
InitCalls(c, n) == IF n = 0 THEN c ELSE InitCalls(InitStep(c), n - 1)

Conn == [ws |-> ws, rs |-> readyState, poll |-> initPoll, settle |-> initSettle]

SetConn(c) ==
  /\ ws' = c.ws
  /\ readyState' = c.rs
  /\ initPoll' = c.poll
  /\ initSettle' = c.settle

\* what send() does on a handle in state st: it throws on CONNECTING; on
\* CLOSING or CLOSED the WHATWG WebSocket discards the data and the
\* w3cwebsocket shim of the README throws.
SendOutcomes(st) ==
  IF st = "OPEN" THEN {"sent"}
  ELSE IF st = "CONNECTING" THEN {"threw"}
  ELSE {"threw", "dropped"}

\* the outcome taken when the task does not reach a send()
NoSend(o) == o = CHOOSE x \in SendOutcomes(readyState[ws]) : TRUE

RaisedBy(o) == IF o = "threw" THEN {"SendNotOpen"} ELSE {}

\* the frame that leaves on the handle: send() transmits it only when OPEN
Sent(o, f) == IF o = "sent" THEN f ELSE NoFrame

\* the server starts the subscription at the startSequence of a subscribe
\* request that reached it
Served(o, cmd, arg) == IF o = "sent" /\ cmd = "subscribe" THEN arg ELSE serverFrom

\* the application calls init()
AppInit ==
  /\ ~started
  /\ started' = TRUE
  /\ isConnected' = FALSE
  /\ SetConn(InitStep(Conn))
  /\ raised' = {}
  /\ out' = NoFrame
  /\ UNCHANGED serverFrom
  /\ UNCHANGED <<listeners, reconnects, everOpen, registryVars, cursorVars>>

\* the 500 ms timer of one init() loop fires
InitPollFire ==
  /\ initPoll > 0
  /\ isConnected' = FALSE
  /\ SetConn(InitStep([Conn EXCEPT !.poll = @ - 1]))
  /\ raised' = {}
  /\ out' = NoFrame
  /\ UNCHANGED serverFrom
  /\ UNCHANGED <<listeners, started, reconnects, everOpen, registryVars, cursorVars>>

\* waitingOperations[id] = entry
\* (caller 0 is the subscribe() that init() calls)
Register(ops, id, p, data) ==
  [i \in (DOMAIN ops) \cup {id} |->
     IF i = id THEN [caller |-> p, data |-> data] ELSE ops[i]]

\* (a counter that is advanced once and then read without being advanced)
NextIdReuse(n) == IF n = 0 THEN 1 ELSE n

\* ++this.cMsgId
NextId(n) == n + 1

\* this.reconnects++
CountReconnect(n) == n + 1

\* the startSequence init() resumes the subscription with
ResumeStart == lastSequence

\* the 1000 ms settle timer of one init() loop fires: the loop counts the
\* reconnect, marks the session connected, resumes the subscription and runs
\* setupListeners on the current handle.
InitSettleFire(o) ==
  /\ initSettle > 0
  /\ o \in SendOutcomes(readyState[ws])
  /\ initSettle' = initSettle - 1
  /\ reconnects' = CountReconnect(reconnects)
  /\ isConnected' = TRUE
  /\ IF listener
     THEN /\ cMsgId' = NextId(cMsgId)
          /\ waitingOperations' = Register(waitingOperations, NextId(cMsgId), 0,
                                             Data("subscribe", ResumeStart))
          /\ raised' = RaisedBy(o)
          /\ serverFrom' = Served(o, "subscribe", ResumeStart)
          /\ out' = Sent(o, Data("subscribe", ResumeStart))
     ELSE /\ NoSend(o)
          /\ raised' = {}
          /\ out' = NoFrame
          /\ UNCHANGED <<cMsgId, waitingOperations, serverFrom>>
  /\ listeners' = [listeners EXCEPT ![ws] = @ + 1]
  /\ UNCHANGED <<ws, readyState, initPoll, started, everOpen, calls, cursorVars>>

\* ------------------------------------------------------------------------
\* The socket and the server
\* ------------------------------------------------------------------------

\* the server accepts the connection
EnvOpen(h) ==
  /\ readyState[h] = "CONNECTING"
  /\ readyState' = [readyState EXCEPT ![h] = "OPEN"]
  /\ everOpen' = everOpen \cup {h}
  /\ raised' = {}
  /\ out' = NoFrame
  /\ UNCHANGED serverFrom
  /\ UNCHANGED <<ws, listeners, initPoll, initSettle, started, isConnected,
                 reconnects, registryVars, cursorVars>>

\* the closing handshake starts
EnvClosing(h) ==
  /\ h < MaxHandles
  /\ readyState[h] = "OPEN"
  /\ readyState' = [readyState EXCEPT ![h] = "CLOSING"]
  /\ raised' = {}
  /\ out' = NoFrame
  /\ UNCHANGED serverFrom
  /\ UNCHANGED <<ws, listeners, initPoll, initSettle, started, isConnected,
                 reconnects, everOpen, registryVars, cursorVars>>

\* init() calls made by the handlers of handle h when it closes: closeHandler
\* is registered for "close" and for "error" by every setupListeners run.
HandlerCalls(n, withError) == IF withError THEN 2 * n ELSE n

\* closeHandler: what teardown does with the pending entries
Teardown(ops) == ops

\* the handle closes; a failure fires "error" and then "close"
EnvClose(h, withError) ==
  /\ h < MaxHandles
  /\ readyState[h] \in {"CONNECTING", "OPEN", "CLOSING"}
  /\ withError => listeners[h] > 0
  /\ ackedAtDrop' = SetMax(acked)
  /\ LET n == HandlerCalls(listeners[h], withError)
         c == [Conn EXCEPT !.rs[h] = "CLOSED"]
     IN /\ SetConn(InitCalls(c, n))
        /\ isConnected' = IF n > 0 THEN FALSE ELSE isConnected
        /\ waitingOperations' = IF n > 0 THEN Teardown(waitingOperations)
                                ELSE waitingOperations
  /\ raised' = {}
  /\ out' = NoFrame
  /\ UNCHANGED serverFrom
  /\ UNCHANGED <<listeners, started, reconnects, everOpen, cMsgId, calls,
                 lastSequence, listener, delivered, acked>>

\* ------------------------------------------------------------------------
\* publish(), canSend() and the calls built on publish()
\* ------------------------------------------------------------------------

\* a publish() call: pc is "wait" (in canSend's timer), "pending" (promise
\* awaiting its response), "resolved", "error" (soft error value returned) or
\* "threw" (send raised inside the promise executor).
NewCall(kind, arg) ==
  [kind |-> kind, arg |-> arg, pc |-> "wait", tries |-> 0, id |-> 0,
   result |-> 0, sent |-> FALSE]

\* canSend: the loop is left when tries > 20 or the session is connected
CanSendExit(t, conn) == t > MaxTries \/ conn

\* (a canSend that accepts once the loop is over, whatever ended it)
CanSendResultAny(t) == t <= MaxTries + 1

\* canSend: return tries < 20
CanSendResult(t) == t < ReturnLimit

\* the promise executor of publish(): allocate the id, register, send
Sending(c, o) ==
  [c EXCEPT !.pc = IF o = "threw" THEN "threw" ELSE "pending",
            !.id = NextId(cMsgId),
            !.sent = (o = "sent")]

\* publish() returns {error: 'Could not send message'}
SoftError(c) == [c EXCEPT !.pc = "error"]

\* a publish() call starts: canSend runs to its first await, or returns true
\* at once when the session is connected.
StartCall(kind, arg, o) ==
  /\ Len(calls) < MaxCalls
  /\ o \in SendOutcomes(readyState[ws])
  /\ IF CanSendExit(0, isConnected)
     THEN /\ calls' = Append(calls, Sending(NewCall(kind, arg), o))
          /\ cMsgId' = NextId(cMsgId)
          /\ waitingOperations' = Register(waitingOperations, NextId(cMsgId),
                                             Len(calls) + 1, Data(kind, arg))
          /\ raised' = RaisedBy(o)
          /\ serverFrom' = Served(o, kind, arg)
          /\ out' = Sent(o, Data(kind, arg))
     ELSE /\ NoSend(o)
          /\ calls' = Append(calls, NewCall(kind, arg))
          /\ raised' = {}
          /\ out' = NoFrame
          /\ UNCHANGED <<cMsgId, waitingOperations, serverFrom>>

AppPublish(o) ==
  /\ StartCall("publish", 0, o)
  /\ UNCHANGED <<socketVars, listeners, started, isConnected, reconnects,
                 everOpen, cursorVars>>

\* subscribe(): this.lastSequence = startSequence
SubscribeCursor(cur, startSequence) == startSequence

AppSubscribe(startSequence, o) ==
  /\ StartCall("subscribe", startSequence, o)
  /\ lastSequence' = SubscribeCursor(lastSequence, startSequence)
  /\ listener' = TRUE
  /\ acked' = {}
  /\ ackedAtDrop' = 0
  /\ UNCHANGED <<socketVars, listeners, started, isConnected, reconnects,
                 everOpen, delivered>>

\* unsubscribe() awaits its publish(); listener is cleared when that returns
AppUnsubscribe(o) ==
  /\ StartCall("unsubscribe", 0, o)
  /\ UNCHANGED <<socketVars, listeners, started, isConnected, reconnects,
                 everOpen, cursorVars>>

\* (an unsubscribe() that returns without touching listener)
UnsubscribedKeeps(c, l) == l

\* what the caller of publish() does when it returns: unsubscribe() runs
\* this.listener = {}, the other callers leave listener alone
Unsubscribed(c, l) == IF c.kind = "unsubscribe" THEN FALSE ELSE l

\* the 500 ms timer of canSend fires in call p
CanSendFire(p, o) ==
  /\ p \in DOMAIN calls
  /\ calls[p].pc = "wait"
  /\ o \in SendOutcomes(readyState[ws])
  /\ LET t == calls[p].tries + 1
         c == [calls[p] EXCEPT !.tries = t]
     IN IF ~CanSendExit(t, isConnected)
        THEN /\ NoSend(o)
             /\ calls' = [calls EXCEPT ![p] = c]
             /\ raised' = {}
             /\ out' = NoFrame
             /\ UNCHANGED <<cMsgId, waitingOperations, listener, serverFrom>>
        ELSE IF CanSendResult(t)
        THEN /\ calls' = [calls EXCEPT ![p] = Sending(c, o)]
             /\ cMsgId' = NextId(cMsgId)
             /\ waitingOperations' = Register(waitingOperations, NextId(cMsgId), p,
                                                Data(c.kind, c.arg))
             /\ raised' = RaisedBy(o)
             /\ serverFrom' = Served(o, c.kind, c.arg)
             /\ out' = Sent(o, Data(c.kind, c.arg))
             /\ UNCHANGED listener
        ELSE /\ NoSend(o)
             /\ calls' = [calls EXCEPT ![p] = SoftError(c)]
             /\ listener' = Unsubscribed(c, listener)
             /\ raised' = {}
             /\ out' = NoFrame
             /\ UNCHANGED <<cMsgId, waitingOperations, serverFrom>>
  /\ UNCHANGED <<socketVars, listeners, started, isConnected, reconnects,
                 everOpen, lastSequence, delivered, acked, ackedAtDrop>>

\* ------------------------------------------------------------------------
\* The message listener
\* ------------------------------------------------------------------------

\* (a registry that answers the oldest pending entry instead of the one named)
LookupOldest(ops, id) == ops[CHOOSE i \in DOMAIN ops : \A j \in DOMAIN ops : i <= j]

\* waitingOperations[json.cMsgId]
Lookup(ops, id) == ops[id]

\* delete waitingOperations[json.cMsgId]
Remove(ops, id) == [i \in (DOMAIN ops) \ {id} |-> ops[i]]

\* resolveMe(json) of call p; a promise that already rejected stays rejected
Resolve(cs, p, id) ==
  IF p \in DOMAIN cs /\ cs[p].pc = "pending"
  THEN [cs EXCEPT ![p].pc = "resolved", ![p].result = id]
  ELSE cs

\* what the cMsgId branch raises for a frame that has no entry
UnmatchedRaises == {"UnmatchedResponse"}

\* a frame {cMsgId: id} arrives on handle h; every message listener installed
\* on h handles it in turn.
RecvResponse(h, id) ==
  /\ readyState[h] = "OPEN"
  /\ listeners[h] > 0
  /\ id \in 1..(cMsgId + 1)
  /\ IF id \in DOMAIN waitingOperations
     THEN LET p == Lookup(waitingOperations, id).caller
          IN /\ calls' = Resolve(calls, p, id)
             /\ waitingOperations' = Remove(waitingOperations, id)
             /\ listener' = IF Resolve(calls, p, id) # calls
                            THEN Unsubscribed(calls[p], listener) ELSE listener
             /\ raised' = IF listeners[h] > 1 THEN {"RoutedTwice"} ELSE {}
     ELSE /\ raised' = UnmatchedRaises
          /\ UNCHANGED <<calls, waitingOperations, listener>>
  /\ out' = NoFrame
  /\ UNCHANGED serverFrom
  /\ UNCHANGED <<socketVars, listeners, started, isConnected, reconnects,
                 everOpen, cMsgId, lastSequence, delivered, acked, ackedAtDrop>>

\* a frame {pub: true, sequence: s} arrives on handle h; the server delivers
\* from the startSequence of the subscription on
RecvPub(h, s) ==
  /\ readyState[h] = "OPEN"
  /\ listeners[h] > 0
  /\ s >= serverFrom
  /\ IF listener
     THEN /\ delivered' = delivered \cup {s}
          /\ raised' = {}
     ELSE /\ raised' = {"NoHandler"}
          /\ UNCHANGED delivered
  /\ out' = NoFrame
  /\ UNCHANGED serverFrom
  /\ UNCHANGED <<socketVars, listeners, started, isConnected, reconnects,
                 everOpen, registryVars, lastSequence, listener, acked, ackedAtDrop>>

\* (an acknowledgment action that sends the frame back and keeps the cursor)
AckCursorStale(cur, s) == cur

\* the acknowledgment action: this.lastSequence = json.sequence
AckCursor(cur, s) == s

\* the consumer invokes the acknowledgment action of delivered message s
Ack(s, o) ==
  /\ s \in delivered
  /\ o \in SendOutcomes(readyState[ws])
  /\ lastSequence' = AckCursor(lastSequence, s)
  /\ raised' = RaisedBy(o)
  /\ acked' = acked \cup {s}
  /\ out' = Sent(o, Data("ack", s))
  /\ UNCHANGED serverFrom
  /\ UNCHANGED <<socketVars, listeners, started, isConnected, reconnects,
                 everOpen, registryVars, listener, delivered, ackedAtDrop>>

\* a frame {sMsgId: ...} arrives on handle h and is sent back as it is
RecvServerRequest(h, o) ==
  /\ readyState[h] = "OPEN"
  /\ listeners[h] > 0
  /\ o \in SendOutcomes(readyState[ws])
  /\ raised' = RaisedBy(o)
  /\ out' = Sent(o, Data("echo", 0))
  /\ UNCHANGED <<socketVars, listeners, started, isConnected, reconnects,
                 everOpen, registryVars, cursorVars, serverFrom>>

\* a frame with none of the three tags arrives on handle h
RecvUntagged(h) ==
  /\ readyState[h] = "OPEN"
  /\ listeners[h] > 0
  /\ raised' = {}
  /\ out' = NoFrame
  /\ UNCHANGED <<socketVars, listeners, started, isConnected, reconnects,
                 everOpen, registryVars, cursorVars, serverFrom>>

\* (a listener that looks at the cMsgId tag before the pub tag)
RouteResponseFirst(f) ==
  IF f.cMsgId # 0 THEN "cMsgId"
  ELSE IF f.pub THEN "pub"
  ELSE IF f.sMsgId THEN "sMsgId"
  ELSE "none"

\* the message listener: the branch taken for the frame f
Route(f) ==
  IF f.pub THEN "pub"
  ELSE IF f.cMsgId # 0 THEN "cMsgId"
  ELSE IF f.sMsgId THEN "sMsgId"
  ELSE "none"

\* the frames the server may send: any combination of the tags
Frames ==
  [pub : BOOLEAN, cMsgId : 0..(cMsgId + 1), sMsgId : BOOLEAN, sequence : 1..MaxSeq]

\* a frame f arrives on handle h
RecvFrame(h, f, o) ==
  /\ f \in Frames
  /\ CASE Route(f) = "pub" -> NoSend(o) /\ RecvPub(h, f.sequence)
       [] Route(f) = "cMsgId" -> NoSend(o) /\ RecvResponse(h, f.cMsgId)
       [] Route(f) = "sMsgId" -> RecvServerRequest(h, o)
       [] OTHER -> NoSend(o) /\ RecvUntagged(h)

Outcomes == {"sent", "threw", "dropped"}

Next ==
  \/ AppInit
  \/ InitPollFire
  \/ \E o \in Outcomes : InitSettleFire(o)
  \/ \E h \in Handles : EnvOpen(h)
  \/ \E h \in Handles : EnvClosing(h)
  \/ \E h \in Handles, e \in BOOLEAN : EnvClose(h, e)
  \/ \E o \in Outcomes : AppPublish(o)
  \/ \E s \in 0..MaxSeq, o \in Outcomes : AppSubscribe(s, o)
  \/ \E o \in Outcomes : AppUnsubscribe(o)
  \/ \E p \in 1..MaxCalls, o \in Outcomes : CanSendFire(p, o)
  \/ \E h \in Handles, id \in 1..(cMsgId + 1) : RecvResponse(h, id)
  \/ \E h \in Handles, s \in 1..MaxSeq : RecvPub(h, s)
  \/ \E s \in 1..MaxSeq, o \in Outcomes : Ack(s, o)
  \/ \E h \in Handles, f \in Frames, o \in Outcomes : RecvFrame(h, f, o)

Spec == Init /\ [][Next]_vars

\* the connection alone
NextConn ==
  \/ AppInit
  \/ InitPollFire
  \/ \E o \in Outcomes : InitSettleFire(o)
  \/ \E h \in Handles : EnvOpen(h)
  \/ \E h \in Handles : EnvClosing(h)
  \/ \E h \in Handles, e \in BOOLEAN : EnvClose(h, e)

SpecConn == Init /\ [][NextConn]_vars

\* The specifications below follow a session through its first MaxDrops
\* handles, with an application that starts a publish-family call only when
\* no earlier call is still waiting in canSend.
NoneWaiting == \A q \in DOMAIN calls : calls[q].pc # "wait"

NextLink ==
  \/ AppInit
  \/ InitPollFire
  \/ \E o \in Outcomes : InitSettleFire(o)
  \/ \E h \in Handles : EnvOpen(h)
  \/ \E h \in 1..MaxDrops : EnvClosing(h)
  \/ \E h \in 1..MaxDrops, e \in BOOLEAN : EnvClose(h, e)

\* the connection and the correlation of requests with responses
NextPub ==
  \/ NextLink
  \/ \E o \in Outcomes : NoneWaiting /\ AppPublish(o)
  \/ \E p \in 1..MaxCalls, o \in Outcomes : CanSendFire(p, o)
  \/ \E h \in Handles, id \in 1..(cMsgId + 1) : RecvResponse(h, id)

SpecPub == Init /\ [][NextPub]_vars

\* the connection and the subscription
NextSub ==
  \/ NextLink
  \/ \E s \in 0..MaxSeq, o \in Outcomes :
       Len(calls) < MaxSubscribes /\ NoneWaiting /\ AppSubscribe(s, o)
  \/ \E p \in 1..MaxCalls, o \in Outcomes : CanSendFire(p, o)
  \/ \E h \in Handles, s \in 1..MaxSeq : RecvPub(h, s)
  \/ \E s \in 1..MaxSeq, o \in Outcomes : Ack(s, o)

SpecSub == Init /\ [][NextSub]_vars

\* a session whose handles stay up once they are open, requests issued while
\* it is connected, and the routing of every kind of inbound frame
NextRoute ==
  \/ AppInit
  \/ InitPollFire
  \/ \E o \in Outcomes : InitSettleFire(o)
  \/ \E h \in Handles : EnvOpen(h)
  \/ \E o \in Outcomes : isConnected /\ AppPublish(o)
  \/ \E s \in 0..MaxSeq, o \in Outcomes :
       Len(calls) < MaxSubscribes /\ isConnected /\ AppSubscribe(s, o)
  \/ \E h \in Handles, f \in Frames, o \in Outcomes : RecvFrame(h, f, o)

SpecRoute == Init /\ [][NextRoute]_vars

\* the connection with its failures, publish() called while the session is
\* connected, and the responses
NextReq ==
  \/ NextLink
  \/ \E o \in Outcomes : isConnected /\ AppPublish(o)
  \/ \E h \in Handles, id \in 1..(cMsgId + 1) : RecvResponse(h, id)

SpecReq == Init /\ [][NextReq]_vars

\* a session whose handles stay up once they are open, and publish() calls
\* that wait in canSend one at a time
NextWait ==
  \/ AppInit
  \/ InitPollFire
  \/ \E o \in Outcomes : InitSettleFire(o)
  \/ \E h \in Handles : EnvOpen(h)
  \/ \E o \in Outcomes : NoneWaiting /\ AppPublish(o)
  \/ \E p \in 1..MaxCalls, o \in Outcomes : CanSendFire(p, o)

SpecWait == Init /\ [][NextWait]_vars

\* a session whose handles stay up once they are open, subscribe() on the
\* connected session, unsubscribe() at any time, deliveries and acks
NextUnsub ==
  \/ AppInit
  \/ InitPollFire
  \/ \E o \in Outcomes : InitSettleFire(o)
  \/ \E h \in Handles : EnvOpen(h)
  \/ \E s \in 0..MaxSeq, o \in Outcomes :
       Len(calls) < MaxSubscribes /\ isConnected /\ AppSubscribe(s, o)
  \/ \E o \in Outcomes : NoneWaiting /\ AppUnsubscribe(o)
  \/ \E p \in 1..MaxCalls, o \in Outcomes : CanSendFire(p, o)
  \/ \E h \in Handles, id \in 1..(cMsgId + 1) : RecvResponse(h, id)
  \/ \E h \in Handles, s \in 1..MaxSeq : RecvPub(h, s)
  \/ \E s \in 1..MaxSeq, o \in Outcomes : Ack(s, o)

SpecUnsub == Init /\ [][NextUnsub]_vars

\* the connection with its failures, and subscribe() and unsubscribe() called
\* while the session is connected
NextResub ==
  \/ NextLink
  \/ \E s \in 0..MaxSeq, o \in Outcomes :
       Len(calls) < MaxSubscribes /\ isConnected /\ AppSubscribe(s, o)
  \/ \E o \in Outcomes : isConnected /\ AppUnsubscribe(o)
  \/ \E h \in Handles, id \in 1..(cMsgId + 1) : RecvResponse(h, id)

SpecResub == Init /\ [][NextResub]_vars

\* the connection and publish() calls that may wait in canSend together
NextOrder ==
  \/ NextLink
  \/ \E o \in Outcomes : AppPublish(o)
  \/ \E p \in 1..MaxCalls, o \in Outcomes : CanSendFire(p, o)

SpecOrder == Init /\ [][NextOrder]_vars

\* the connection under the scheduling of the event loop: a timer that is
\* due fires, and the server accepts a connection attempt.
SpecConnFair ==
  /\ SpecConn
  /\ WF_vars(InitPollFire)
  /\ WF_vars(\E o \in Outcomes : InitSettleFire(o))
  /\ WF_vars(\E h \in Handles : EnvOpen(h))

\* ------------------------------------------------------------------------
\* Properties
\* ------------------------------------------------------------------------

\* C1: a publish call is resolved only with the response frame whose cMsgId
\* is the request id the call registered, whatever the order of the responses.
C1_OwnResponse ==
  \A p \in DOMAIN calls : calls[p].pc = "resolved" => calls[p].result = calls[p].id

\* two calls were pending together and the later one was answered first
C1_Witness ==
  /\ Len(calls) = 2
  /\ calls[1].pc = "pending" /\ calls[1].sent
  /\ calls[2].pc = "resolved" /\ calls[2].result = calls[2].id

\* C2: when the handle a request was sent on is torn down and replaced, no
\* publish call is left pending.
C2_NoPendingAfterTeardown ==
  [][ws' # ws => \A p \in DOMAIN calls' : calls'[p].pc # "pending"]_vars

\* C3: the subscribe request init() sends on re-establishment starts at or
\* above the highest sequence acknowledged before the disconnect.
C3_ResumeNotBelowAcked ==
  [][\A id \in (DOMAIN waitingOperations') \ (DOMAIN waitingOperations) :
       waitingOperations'[id].caller = 0
         => waitingOperations'[id].data.arg >= ackedAtDrop]_vars

\* C4: lastSequence never decreases.
C4_CursorMonotonic == [][lastSequence' >= lastSequence]_vars

\* C5: the first invocation of an acknowledgment action sets the cursor to its
\* message's sequence, and a repeated invocation never moves the cursor back.
C5_AckIdempotent ==
  [][/\ \A s \in acked' \ acked : lastSequence' = s
     /\ \A s \in acked : (acked' = acked /\ lastSequence' = s)
                            => lastSequence' >= lastSequence]_vars

\* C6: the reconnect counter is incremented once per handle that reached
\* OPEN and not otherwise: it never exceeds the number of re-establishments.
C6_OnePerEstablishment == reconnects + 1 <= Cardinality(everOpen)

\* C7: once init() has started, a closed current handle leads to a connected
\* session on an open handle.
C7_EventuallyReconnected ==
  (started /\ readyState[ws] = "CLOSED") ~> (isConnected /\ readyState[ws] = "OPEN")

\* C8: a publish that stays disconnected through the whole wait of canSend
\* returns the soft error, sends nothing, allocates no id and registers nothing.
C8_SoftErrorAfterFullWait ==
  \A p \in DOMAIN calls :
    /\ calls[p].tries > MaxTries => calls[p].pc = "error"
    /\ calls[p].pc = "error" =>
         /\ ~calls[p].sent
         /\ calls[p].id = 0
         /\ \A id \in DOMAIN waitingOperations : waitingOperations[id].caller # p

\* a call polled through the whole wait and returned the soft error
C8_Witness ==
  \E p \in DOMAIN calls : calls[p].tries = MaxTries + 1 /\ calls[p].pc = "error"

\* C9: a call waiting in canSend that finds the session connected at a check
\* no later than the one after the 20th poll registers its request.
C9_SentWhenConnectedInTime ==
  [][\A p \in DOMAIN calls :
       (calls[p].pc = "wait" /\ calls[p].tries < MaxTries /\ isConnected
          /\ calls'[p].pc # "wait")
         => calls'[p].id # 0]_vars

\* C10: handling a response frame that has no entry raises no error.
C10_UnmatchedDropped == "UnmatchedResponse" \notin raised

\* C11 (as stated): every unsubscribe() that has returned issued one
\* unsubscribe request.
C11_ReturnedSentRequest ==
  \A p \in DOMAIN calls :
    calls[p].kind = "unsubscribe" /\ calls[p].pc \in {"resolved", "error"}
      => calls[p].id # 0

\* C11 (amended): an unsubscribe() call issues at most one unsubscribe request;
\* it returns either with the response to that request or, when canSend gave
\* up, with no request issued and no frame sent; the step in which it returns
\* leaves no handler in listener; no step of an unsubscribe() call changes
\* lastSequence.
C11_UnsubscribeEffect ==
  [][\A p \in DOMAIN calls' :
       calls'[p].kind = "unsubscribe"
       /\ (p \notin DOMAIN calls \/ calls'[p] # calls[p])
       => /\ lastSequence' = lastSequence
          /\ calls'[p].pc \in {"resolved", "error"} => ~listener'
          /\ calls'[p].pc = "resolved" => calls'[p].id # 0
          /\ calls'[p].pc = "error"
               => calls'[p].id = 0 /\ ~CanSendResult(calls'[p].tries)
                  /\ out' = NoFrame
          /\ calls'[p].sent /\ (p \notin DOMAIN calls \/ ~calls[p].sent)
               => out' = Data("unsubscribe", 0)
          /\ p \in DOMAIN calls /\ calls[p].id # 0
               => calls'[p].id = calls[p].id /\ out' # Data("unsubscribe", 0)]_vars

\* an unsubscribe() has returned with its response while the cursor of the
\* subscription stands at an acknowledged sequence
C11_Witness ==
  \E p \in DOMAIN calls :
    /\ calls[p].kind = "unsubscribe" /\ calls[p].pc = "resolved"
    /\ ~listener /\ lastSequence > 0 /\ lastSequence \in acked

\* C12: a delivery frame received while a handler is registered is handed to
\* the handler and leaves lastSequence unchanged and sends nothing; only the
\* acknowledgment action of a delivered frame sets lastSequence to the
\* sequence of that frame, and it sends the frame back (on an OPEN handle the
\* frame goes out); nothing else but subscribe() changes lastSequence.
C12_AckSetsCursor ==
  [][/\ delivered' # delivered
          => /\ listener
             /\ lastSequence' = lastSequence
             /\ acked' = acked
             /\ out' = NoFrame
     /\ acked' \ acked # {}
          => \E s \in delivered :
                /\ acked' = acked \cup {s}
                /\ lastSequence' = s
                /\ readyState[ws] = "OPEN" => out' = Data("ack", s)
     /\ \A s \in 1..MaxSeq :
          out' = Data("ack", s)
            => s \in delivered /\ s \in acked' /\ lastSequence' = s
     /\ lastSequence' # lastSequence
          => \/ lastSequence' \in delivered /\ lastSequence' \in acked'
             \/ /\ Len(calls') > Len(calls)
                /\ calls'[Len(calls')].kind = "subscribe"
                /\ calls'[Len(calls')].arg = lastSequence']_vars

\* the consumer has just acknowledged a delivered frame: the cursor stands at
\* its sequence and the frame went back
C12_Witness ==
  \E s \in acked : s \in delivered /\ lastSequence = s /\ out = Data("ack", s)

\* C13: an inbound frame is dispatched once, by the first of its tags in the
\* order pub, cMsgId, sMsgId: a frame with pub only reaches the subscription
\* handler (no entry resolved, nothing echoed); a frame with cMsgId and no pub
\* only resolves and removes the entry of that id; a frame with only sMsgId is
\* only echoed; a frame with no tag changes nothing and sends nothing.
C13_RoutedByPriority ==
  [][\A h \in {g \in Handles : readyState[g] = "OPEN" /\ listeners[g] > 0},
        o \in SendOutcomes(readyState[ws]), f \in Frames :
       RecvFrame(h, f, o)
       => /\ f.pub
               => /\ UNCHANGED registryVars
                  /\ out' = NoFrame
                  /\ "UnmatchedResponse" \notin raised'
                  /\ listener => delivered' = delivered \cup {f.sequence}
          /\ ~f.pub /\ f.cMsgId # 0
               => /\ delivered' = delivered
                  /\ out' = NoFrame
                  /\ "NoHandler" \notin raised'
                  /\ DOMAIN waitingOperations' = DOMAIN waitingOperations \ {f.cMsgId}
                  /\ \A p \in DOMAIN calls :
                       calls'[p] # calls[p]
                         => calls[p].id = f.cMsgId /\ calls'[p].pc = "resolved"
          /\ ~f.pub /\ f.cMsgId = 0 /\ f.sMsgId
               => /\ readyState[ws] = "OPEN" => out' = Data("echo", 0)
                  /\ UNCHANGED <<registryVars, cursorVars>>
          /\ ~f.pub /\ f.cMsgId = 0 /\ ~f.sMsgId
               => /\ out' = NoFrame /\ raised' = {}
                  /\ UNCHANGED <<registryVars, cursorVars, socketVars,
                                  isConnected, reconnects, listeners>>]_vars

\* a frame that only carries sMsgId has just been echoed while a request is
\* pending and a handler is registered
C13_Witness ==
  /\ out = Data("echo", 0)
  /\ DOMAIN waitingOperations # {}
  /\ listener

\* C14: at most one message listener (and one close/error handler pair) is
\* installed on any handle, and at most one init() loop is active at a time.
C14_OneListenerOneLoop ==
  /\ \A h \in Handles : listeners[h] <= 1
  /\ initPoll + initSettle <= 1

\* C16: a publish() that has passed canSend() calls send on an OPEN handle:
\* every call that allocated its request id got its frame out, none was
\* interrupted by a raised send error.
C16_SendOnlyWhenOpen ==
  \A p \in DOMAIN calls : calls[p].id # 0 => calls[p].sent

\* C17: a delivery frame that arrives while no handler is registered raises
\* no error.
C17_NoHandlerDropped == "NoHandler" \notin raised

\* C19: a publish() that issues a request uses an id greater than every id
\* used before it; a call keeps the id it was given; no two calls and no two
\* entries of waitingOperations share an id.
C19_FreshIds ==
  [][/\ cMsgId' >= cMsgId
     /\ \A p \in DOMAIN calls' :
          calls'[p].id # 0 /\ (p \notin DOMAIN calls \/ calls[p].id = 0)
            => /\ calls'[p].id > cMsgId
               /\ \A q \in DOMAIN calls : calls'[p].id > calls[q].id
               /\ \A i \in DOMAIN waitingOperations : calls'[p].id > i
               /\ calls'[p].id \in DOMAIN waitingOperations'
               /\ waitingOperations'[calls'[p].id].caller = p
     /\ \A p \in DOMAIN calls : calls[p].id # 0 => calls'[p].id = calls[p].id
     /\ \A p, q \in DOMAIN calls' :
          p # q /\ calls'[p].id # 0 => calls'[p].id # calls'[q].id
     /\ \A i, j \in DOMAIN waitingOperations' :
          i # j /\ waitingOperations'[i].caller # 0
            => waitingOperations'[i].caller # waitingOperations'[j].caller]_vars

\* two publish() calls have issued their requests, the second while the first
\* was still pending or already answered
C19_Witness ==
  \E p, q \in DOMAIN calls :
    /\ p < q /\ calls[p].id # 0 /\ calls[q].id # 0
    /\ calls[q].id \in DOMAIN waitingOperations

\* C20: the session replaces its handle only when the current one is CLOSED
\* or CLOSING, by a handle that was never used; so at most one handle is
\* CONNECTING or OPEN and a replaced handle is never current again.
C20_ReplaceOnlyClosed ==
  [][/\ ws' # ws
          => /\ readyState'[ws] \in {"CLOSED", "CLOSING"}
             /\ ws' > ws
             /\ readyState[ws'] = "NONE"
             /\ readyState'[ws'] = "CONNECTING"
     /\ Cardinality({h \in Handles : readyState'[h] \in {"CONNECTING", "OPEN"}}) <= 1
     /\ \A h \in Handles : readyState[h] # "NONE" /\ h # ws => h # ws']_vars

\* the session has replaced a closed handle and the new one is open
C20_Witness ==
  /\ ws > 1
  /\ readyState[ws] = "OPEN"
  /\ \A h \in 1..(ws - 1) : readyState[h] = "CLOSED"

\* C15: once an unsubscribe() has sent its request and the application calls
\* no subscribe() after it, no re-establishment of the connection sends a
\* subscribe request, also when the connection drops before the response to
\* the unsubscribe request has arrived.
C15_NoResubscribeAfterUnsubscribe ==
  [][(\E p \in DOMAIN calls :
        /\ calls[p].kind = "unsubscribe" /\ calls[p].sent
        /\ \A q \in DOMAIN calls : q > p => calls[q].kind # "subscribe")
     => /\ \A i \in DOMAIN waitingOperations' \ DOMAIN waitingOperations :
             waitingOperations'[i].data.cmd # "subscribe"
        /\ \A s \in 0..MaxSeq : out' # Data("subscribe", s)]_vars

\* C18: requests go out in the order of their publish() calls: of two calls
\* that both issued a request, the earlier call holds the smaller id.
C18_SentInCallOrder ==
  \A p, q \in DOMAIN calls :
    p < q /\ calls[p].id # 0 /\ calls[q].id # 0 => calls[p].id < calls[q].id

TypeOK ==
  /\ ws \in Handles
  /\ reconnects >= FirstReconnects

====
